---- MODULE Spec2Model ----
(***************************************************************************)
(* Weirdhost renew scripts: src/weirdhost.py (WeirdhostRenew, main) and    *)
(* src/renew.py (RenewBot).  The browser is the environment: every value a *)
(* Playwright call returns, and every exception it raises, is an input     *)
(* drawn with \E at the step that makes the call.                          *)
(*                                                                         *)
(*   Spec            weirdhost.py, one whole run of main()                 *)
(*   SpecCf          weirdhost.py, _wait_for_cf with a clock in seconds    *)
(*   SpecClassify    weirdhost.py, _detect_click_result on one page        *)
(*   SpecLogin       weirdhost.py, the login section of run()              *)
(*   SpecChallenge   weirdhost.py, _is_cf_challenge on one page            *)
(*   SpecFindButton  weirdhost.py, the renew button search on one page     *)
(*   SpecReportRow   weirdhost.py, one result string written and read back *)
(*   SpecLive        weirdhost.py, the parts above under weak fairness     *)
(*   SpecRenew       renew.py, one whole run of RenewBot().run()           *)
(*   SpecRFindButton renew.py, the renew button search on one page         *)
(*   SpecRClassify   renew.py, the result analysis on one popup            *)
(***************************************************************************)
EXTENDS Integers, Sequences, FiniteSets, TLC

(* ------------------------------ bounds --------------------------------- *)
\* comma-separated fields of WEIRDHOST_SERVER_URLS
MaxFields == 2
\* elements one locator matches on a page
MaxMatches == 2
\* selectors that respond (count() > 0 or raise) on a page handed to
\* _detect_click_result in SpecClassify
MaxMarkers == 2
\* seconds one _is_cf_challenge call may take in SpecCf
MaxDetect == 1
\* characters of a resource locator in SpecReportRow
MaxUrlLen == 3

(* ------------------------- program constants --------------------------- *)
STATUS_SUCCESS == "success"
STATUS_ALREADY_RENEWED == "already_renewed"
STATUS_NO_BUTTON == "no_button_found"
STATUS_LOGIN_FAILED == "login_failed"
STATUS_LOGIN_LOST == "login_lost_on_server"
STATUS_CF_BLOCKED == "cf_blocked"
STATUS_RUNTIME_ERROR == "runtime_error"
STATUS_NAV_FAILED == "nav_failed"
STATUS_NO_SERVERS == "no_servers"

\* the keys of status_display / status_messages
StatusKeys ==
    { STATUS_SUCCESS, STATUS_ALREADY_RENEWED, STATUS_NO_BUTTON,
      STATUS_LOGIN_FAILED, STATUS_LOGIN_LOST, STATUS_CF_BLOCKED,
      STATUS_NAV_FAILED, STATUS_RUNTIME_ERROR, STATUS_NO_SERVERS }

\* len(button_selectors) in _renew_server
NumButtonSelectors == 6
\* len(success_selectors), len(already_selectors), len(error_selectors)
NumSuccessSelectors == 6
NumAlreadySelectors == 3
NumErrorSelectors == 5
\* len(confirm_texts) in _handle_confirm_dialog
NumConfirmTexts == 7
\* len(cf_keywords) in _is_cf_challenge and the threshold on their count
NumCfKeywords == 6
CfKeywordThreshold == 2
\* len(selector_groups) in _login_with_email
NumSelectorGroups == 4

(* --------------------------- text helpers ------------------------------ *)
\* Texts are sequences of one-character strings; a status constant is one
\* element (no status constant contains ':' or '/').

RECURSIVE LStrip(_, _)
LStrip(s, cs) ==
    IF s = <<>> THEN s
    ELSE IF Head(s) \in cs THEN LStrip(Tail(s), cs) ELSE s

RECURSIVE RStrip(_, _)
RStrip(s, cs) ==
    IF s = <<>> THEN s
    ELSE IF s[Len(s)] \in cs THEN RStrip(SubSeq(s, 1, Len(s) - 1), cs) ELSE s

\* str.strip(chars)
Strip(s, cs) == RStrip(LStrip(s, cs), cs)

Whitespace == {" "}

\* s.split(sep)[-1]: what follows the last separator
LastSegment(s, sep) ==
    LET at == {i \in 1..Len(s) : s[i] = sep}
    IN  IF at = {} THEN s
        ELSE LET m == CHOOSE i \in at : \A j \in at : j <= i
             IN  SubSeq(s, m + 1, Len(s))

\* server_url.strip('/').split('/')[-1]
ServerId(url) == LastSegment(Strip(url, {"/"}), "/")

\* [u.strip() for u in fields if u.strip()], fields = server_urls_str.split(',')
RECURSIVE ParseServerList(_)
ParseServerList(fields) ==
    IF fields = <<>> THEN <<>>
    ELSE LET u == Strip(Head(fields), Whitespace)
         IN  IF u = <<>> THEN ParseServerList(Tail(fields))
             ELSE <<u>> \o ParseServerList(Tail(fields))

\* f"{server_id}:{status}"
FormatResult(server_id, status) == server_id \o <<":">> \o <<status>>

\* result.split(':', 1)
SplitResult(result) ==
    LET at == {i \in 1..Len(result) : result[i] = ":"}
    IN  IF at = {} THEN <<result>>
        ELSE LET m == CHOOSE i \in at : \A j \in at : i <= j
             IN  <<SubSeq(result, 1, m - 1), SubSeq(result, m + 1, Len(result))>>

\* parts[0] if len(parts) > 0 else "unknown"
ResultId(result) == SplitResult(result)[1]

\* parts[1] if len(parts) > 1 else "unknown"
ResultStatus(result) ==
    LET parts == SplitResult(result)
    IN  IF Len(parts) > 1 THEN parts[2] ELSE <<"unknown">>

\* the configured resource locators and the raw fields they come from
UrlA == <<"s", "/", "a">>
UrlB == <<"s", "/", "b", "/">>
Fields == { <<>>, <<" ">>, UrlA, <<" ">> \o UrlB }

\* os.getenv('WEIRDHOST_SERVER_URLS', '').split(','): never an empty list
RawUrlStrings == UNION {[1..n -> Fields] : n \in 1..MaxFields}


(* ---------------------- weirdhost.py: page probes ---------------------- *)
\* What _check_login_status reads: where page.url is, and the logged-in
\* marker locator's count() (which may raise).
PageObs == [url : {"login", "auth", "app"}, markers : {"some", "none", "raises"}]

\* a mutant of CheckLoginStatus: the markers are looked for before the URL
\* is tested
CheckLoginStatusMarkersFirst(p) ==
    IF p.markers = "some" THEN TRUE
    ELSE p.url \notin {"login", "auth"}

CheckLoginStatus(p) ==
    IF p.url = "login" THEN FALSE              \* "/auth/login" in current_url
    ELSE IF p.markers = "some" THEN TRUE       \* markers.count() > 0
    ELSE p.url # "auth"                        \* "/auth/" not in current_url

\* What _is_cf_challenge reads: the title, the number of cf_keywords in the
\* body text, the Turnstile iframe count, the challenge form count.
CfObs ==
    { o \in [title : {"keyword", "plain", "raises"},
             body_raises : BOOLEAN,
             body_keywords : 0..NumCfKeywords,
             iframe : {"some", "none", "raises"},
             form : {"some", "none", "raises"}] :
        o.body_raises => o.body_keywords = 0 }

\* the pages of a run: one page per way through _is_cf_challenge
CfPagesRun ==
    LET clear == [title |-> "plain", body_raises |-> FALSE, body_keywords |-> 0,
                  iframe |-> "none", form |-> "none"]
    IN  { clear,
          [clear EXCEPT !.title = "keyword"],
          [clear EXCEPT !.title = "raises", !.iframe = "some"],
          [clear EXCEPT !.body_keywords = 1],
          [clear EXCEPT !.body_keywords = CfKeywordThreshold],
          [clear EXCEPT !.body_raises = TRUE, !.iframe = "some"],
          [clear EXCEPT !.iframe = "raises", !.form = "some"],
          [clear EXCEPT !.iframe = "raises", !.form = "raises"] }

IsCfChallenge(o) ==
    IF o.title = "raises" THEN FALSE           \* outer except: return False
    ELSE IF o.title = "keyword" THEN TRUE
    ELSE IF ~o.body_raises /\ o.body_keywords >= CfKeywordThreshold THEN TRUE
    ELSE IF o.iframe = "some" THEN TRUE
    ELSE IF o.form = "some" THEN TRUE
    ELSE FALSE

(* -------------------- weirdhost.py: the renew button ------------------- *)
\* One selector's locator: count() raises, or it matches a list of elements
\* whose is_visible() answers visible, hidden or raises.
CountRaises == <<"count_raises">>
ElementLists == UNION {[1..n -> {"visible", "hidden", "raises"}] : n \in 0..MaxMatches}
SelectorObs == ElementLists \cup {CountRaises}

NoButton == [sel |-> 0, nth |-> 0]

\* for idx in range(loc.count()): the first visible element, 0 when there is
\* none, -1 when is_visible raises before one is found
RECURSIVE FirstVisible(_, _)
FirstVisible(els, i) ==
    IF i > Len(els) THEN 0
    ELSE IF els[i] = "visible" THEN i
    ELSE IF els[i] = "raises" THEN -1
    ELSE FirstVisible(els, i + 1)

\* for sel in button_selectors: ... break at the first visible element;
\* an exception skips to the next selector
RECURSIVE FindButtonFrom(_, _)
FindButtonFrom(obs, s) ==
    IF s > NumButtonSelectors THEN NoButton
    ELSE IF obs[s] = CountRaises THEN FindButtonFrom(obs, s + 1)
    ELSE LET k == FirstVisible(obs[s], 1)
         IN  IF k > 0 THEN [sel |-> s, nth |-> k]
             ELSE FindButtonFrom(obs, s + 1)

FindButton(obs) == FindButtonFrom(obs, 1)

\* the pages of a run: at most one selector responds
ButtonPages ==
    { [s \in 1..NumButtonSelectors |-> <<>>] } \cup
    { [s \in 1..NumButtonSelectors |-> IF s = t THEN o ELSE <<>>] :
        t \in 1..NumButtonSelectors, o \in SelectorObs \ {<<>>} }

(* ------------------ weirdhost.py: outcome classifier ------------------- *)
\* One marker selector's probe: count() is 0 (absent), is_visible is false
\* (hidden), count or is_visible raises (raises), the element is visible and
\* its inner_text is read (visible), or it is visible and inner_text raises
\* (visible_text_raises).
MarkerObs == {"absent", "hidden", "raises", "visible", "visible_text_raises"}

\* for sel in <category>_selectors: return at the first probe that gets
\* through count, is_visible and inner_text; an exception continues
RECURSIVE ScanMarkers(_, _)
ScanMarkers(probes, i) ==
    IF i > Len(probes) THEN FALSE
    ELSE IF probes[i] = "visible" THEN TRUE
    ELSE ScanMarkers(probes, i + 1)

\* the classifier without its closing "return STATUS_SUCCESS"
DetectClickResultNoDefault(m) ==
    IF ScanMarkers(m.success, 1) THEN STATUS_SUCCESS
    ELSE IF ScanMarkers(m.already, 1) THEN STATUS_ALREADY_RENEWED
    ELSE IF ScanMarkers(m.error, 1) THEN STATUS_RUNTIME_ERROR
    ELSE STATUS_RUNTIME_ERROR

DetectClickResult(m) ==
    IF ScanMarkers(m.success, 1) THEN STATUS_SUCCESS
    ELSE IF ScanMarkers(m.already, 1) THEN STATUS_ALREADY_RENEWED
    ELSE IF ScanMarkers(m.error, 1) THEN STATUS_RUNTIME_ERROR
    ELSE STATUS_SUCCESS

AllAbsent(n) == [i \in 1..n |-> "absent"]
Only(n, t, o) == [i \in 1..n |-> IF i = t THEN o ELSE "absent"]
Responding == MarkerObs \ {"absent"}

NoMarkers ==
    [success |-> AllAbsent(NumSuccessSelectors),
     already |-> AllAbsent(NumAlreadySelectors),
     error |-> AllAbsent(NumErrorSelectors)]

\* the pages of a run: at most one marker selector responds
MarkerPagesRun ==
    { NoMarkers } \cup
    { [NoMarkers EXCEPT !.success = Only(NumSuccessSelectors, t, o)] :
        t \in 1..NumSuccessSelectors, o \in Responding } \cup
    { [NoMarkers EXCEPT !.already = Only(NumAlreadySelectors, t, o)] :
        t \in 1..NumAlreadySelectors, o \in Responding } \cup
    { [NoMarkers EXCEPT !.error = Only(NumErrorSelectors, t, o)] :
        t \in 1..NumErrorSelectors, o \in Responding }

(* ------------------ weirdhost.py: confirmation dialog ------------------ *)
\* One confirm text's probe: no button (absent), not visible (hidden), count
\* or is_visible raises (raises), visible and the click returns (click_ok),
\* visible and the click raises (click_raises).
ConfirmObs == {"absent", "hidden", "raises", "click_ok", "click_raises"}

\* for text in confirm_texts: the number of btn.first.click calls made;
\* the loop returns after the first click that does not raise
RECURSIVE ConfirmClicksFrom(_, _)
ConfirmClicksFrom(d, i) ==
    IF i > Len(d) THEN 0
    ELSE IF d[i] = "click_ok" THEN 1
    ELSE IF d[i] = "click_raises" THEN 1 + ConfirmClicksFrom(d, i + 1)
    ELSE ConfirmClicksFrom(d, i + 1)

HandleConfirmDialog(d) == ConfirmClicksFrom(d, 1)

\* the dialogs of a run: at most one confirm text responds
ConfirmPages ==
    { AllAbsent(NumConfirmTexts) } \cup
    { [i \in 1..NumConfirmTexts |-> IF i = t THEN o ELSE "absent"] :
        t \in 1..NumConfirmTexts, o \in ConfirmObs \ {"absent"} }

(* ------------------------ weirdhost.py: report ------------------------- *)
\* print_summary: fail_count == 0
PrintSummary(rs) ==
    \A i \in 1..Len(rs) :
        ResultStatus(rs[i]) \in {<<STATUS_SUCCESS>>, <<STATUS_ALREADY_RENEWED>>}

\* status_messages.get(status, unknown): the table's entry for a key, the
\* unknown-status text for anything else
StatusMessage(status) ==
    IF Len(status) = 1 /\ status[1] \in StatusKeys
    THEN <<"message", status[1]>>
    ELSE <<"unknown">> \o status

\* update_readme: one table row per element of results
UpdateReadme(rs) ==
    [i \in 1..Len(rs) |->
        [server_id |-> ResultId(rs[i]), message |-> StatusMessage(ResultStatus(rs[i]))]]

\* the rows run() returns for a run that processes no target
AllTargets(list, status) ==
    [i \in 1..Len(list) |-> FormatResult(ServerId(list[i]), status)]

VARIABLES
    server_list,    \* self.server_list
    has_cookie,     \* bool(self.remember_web_cookie)
    has_creds,      \* bool(self.email and self.password)
    pc,             \* position in main() / run() / _renew_server()
    login_ok,       \* run()'s login_ok at "if not login_ok": "untested" before
    idx,            \* loop index of run()'s for loop, from 1
    group,          \* index into selector_groups in _login_with_email, from 1
    results,        \* run()'s results list
    browser,        \* self.browser: "none", "open", "closed"
    closes,         \* calls of self.browser.close() made so far
    renew_button,   \* the element _renew_server selected
    result_status,  \* _renew_server's result_status
    cur,            \* what happened to the target processed last
    clicked,        \* renew clicks issued per resource locator
    raised_at,      \* index of the target during which an exception escaped
    report,         \* rows of README.md, <<>> before it is written
    exit_code       \* sys.exit code, -1 while running

wvars == <<server_list, has_cookie, has_creds, pc, login_ok, idx, group, results, browser, closes,
           renew_button, result_status, cur, clicked, raised_at, report,
           exit_code>>

VARIABLES
    cf_pc,          \* position in _wait_for_cf
    cf_timeout,     \* its timeout argument, seconds
    cf_now,         \* time.time() - start, seconds
    cf_was,         \* was_challenged
    cf_ret          \* "none" while running, then "resolved" or "timed_out"

cfvars == <<cf_pc, cf_timeout, cf_now, cf_was, cf_ret>>

VARIABLES
    cl_page,        \* the page _detect_click_result looks at
    cl_result       \* its return value, "none" before the call

clvars == <<cl_page, cl_result>>

VARIABLES
    r_urls_str,     \* SERVER_URLS_STR, as its comma-separated fields
    r_cookie,       \* bool(COOKIE_REMEMBER)
    r_creds,        \* bool(EMAIL and PASSWORD)
    r_pc,           \* position in RenewBot.run() / process_server()
    r_calls,        \* the login paths login() has entered, in order
    r_urls,         \* run()'s urls
    r_idx,          \* index of the url being processed, from 1
    r_results,      \* run()'s results
    r_browser,      \* self.browser: "none", "open", "closed"
    r_cur,          \* what happened to the target processed last
    r_report,       \* README.md: whether written, and its rows
    r_exit          \* the process exit code, -1 while running

rvars == <<r_urls_str, r_cookie, r_creds, r_pc, r_calls, r_urls, r_idx, r_results,
           r_browser, r_cur, r_report, r_exit>>

VARIABLES
    l_cookie,       \* has_cookie
    l_creds,        \* has_creds
    l_pc,           \* position in run()'s login section and the two login paths
    l_group,        \* index into selector_groups, from 1
    l_login_ok,     \* login_ok at "if not login_ok"; "raised" if never reached
    l_calls,        \* the login paths called so far, in order
    l_auth,         \* the path that returned True, "none" if none has
    l_submits,      \* submissions of the login form (click or Enter)
    l_gate,         \* what the latest _wait_for_cf of the email path returned
    l_probe,        \* what the latest _check_login_status call read, and what
                    \* the _wait_for_cf call before it had returned
    l_tokens        \* the cookies of _login_with_cookies are in self.context

lvars == <<l_cookie, l_creds, l_pc, l_group, l_login_ok, l_calls, l_auth,
           l_submits, l_gate, l_probe, l_tokens>>

VARIABLES
    p_fn,           \* the function called on its own: "_is_cf_challenge", ...
    p_arg,          \* what the page it is called on answers
    p_ret           \* <<>> before the call, then <<its return value>>

pvars == <<p_fn, p_arg, p_ret>>

vars == <<wvars, cfvars, clvars, rvars, lvars, pvars>>

\* the variables a specification does not use stay as they are
WIdle ==
    /\ server_list = <<>> /\ has_cookie = FALSE /\ has_creds = FALSE
    /\ pc = "off" /\ login_ok = "untested" /\ idx = 0 /\ group = 0 /\ results = <<>> /\ browser = "none"
    /\ closes = 0
    /\ renew_button = [sel |-> 0, nth |-> 0] /\ result_status = "none"
    /\ cur = [target |-> 0] /\ clicked = <<>> /\ raised_at = 0
    /\ report = <<>> /\ exit_code = -1

CfIdle ==
    /\ cf_pc = "off" /\ cf_timeout = 0 /\ cf_now = 0 /\ cf_was = FALSE
    /\ cf_ret = "none"

ClIdle == cl_page = <<>> /\ cl_result = "none"

RIdle ==
    /\ r_urls_str = <<>> /\ r_cookie = FALSE /\ r_creds = FALSE /\ r_pc = "off"
    /\ r_calls = <<>>
    /\ r_urls = <<>> /\ r_idx = 0 /\ r_results = <<>> /\ r_browser = "none"
    /\ r_cur = [target |-> 0] /\ r_report = [written |-> FALSE, rows |-> <<>>]
    /\ r_exit = -1

LIdle ==
    /\ l_cookie = FALSE /\ l_creds = FALSE /\ l_pc = "off" /\ l_group = 0
    /\ l_login_ok = "untested" /\ l_calls = <<>> /\ l_auth = "none"
    /\ l_submits = 0 /\ l_gate = "none"
    /\ l_probe = [url |-> "none", markers |-> "none", gate |-> "none"]
    /\ l_tokens = FALSE

PIdle == p_fn = "none" /\ p_arg = <<>> /\ p_ret = <<>>

(* ------------------------- weirdhost.py: run --------------------------- *)
Urls == {UrlA, UrlB}
GotoOutcomes == {"ok", "timeout", "error"}

\* what is recorded about the target being processed: its index, whether
\* _wait_for_cf timed out, whether _safe_goto's _check_login_status answered
\* not logged in, whether the button was disabled, the clicks made, and the
\* steps taken so far, in order
NoTarget ==
    [target |-> 0, gate |-> FALSE, lost |-> FALSE, disabled |-> FALSE, renew |-> 0,
     confirm |-> 0, steps |-> <<>>]

\* WeirdhostRenew.__init__
WInit ==
    /\ \E fields \in RawUrlStrings : server_list = ParseServerList(fields)
    /\ has_cookie \in BOOLEAN
    /\ has_creds \in BOOLEAN
    /\ pc = "run"
    /\ login_ok = "untested"
    /\ idx = 0
    /\ group = 0
    /\ results = <<>>
    /\ browser = "none"
    /\ closes = 0
    /\ renew_button = NoButton
    /\ result_status = "none"
    /\ cur = NoTarget
    /\ clicked = [u \in Urls |-> 0]
    /\ raised_at = 0
    /\ report = <<>>
    /\ exit_code = -1
    /\ CfIdle /\ ClIdle /\ RIdle /\ LIdle /\ PIdle

\* run(), up to the browser launch: the two configuration checks
RunStart ==
    /\ pc = "run"
    /\ IF server_list = <<>>
       THEN /\ results' = <<FormatResult(<<"none">>, STATUS_NO_SERVERS)>>
            /\ pc' = "returned"
       ELSE IF ~(has_cookie \/ has_creds)
       THEN /\ results' = AllTargets(server_list, STATUS_LOGIN_FAILED)
            /\ pc' = "returned"
       ELSE /\ results' = results
            /\ pc' = "create_browser"
    /\ UNCHANGED <<server_list, has_cookie, has_creds, login_ok, idx, group, browser, closes,
                   renew_button, result_status, cur, clicked, raised_at, report,
                   exit_code>>
    /\ UNCHANGED <<cfvars, clvars, rvars, lvars, pvars>>

\* _create_browser: the launch raises (self.browser stays None), a later call
\* raises (self.browser is set), or all of it returns
CreateBrowser ==
    /\ pc = "create_browser"
    /\ \E o \in {"ok", "launch_raises", "context_raises"} :
        /\ browser' = IF o = "launch_raises" THEN "none" ELSE "open"
        /\ pc' = IF o = "ok" THEN "login_cookie" ELSE "except"
    /\ UNCHANGED <<server_list, has_cookie, has_creds, login_ok, idx, group, results, closes,
                   renew_button, result_status, cur, clicked, raised_at, report,
                   exit_code>>
    /\ UNCHANGED <<cfvars, clvars, rvars, lvars, pvars>>

\* where run() goes when _login_with_cookies did not log in
AfterCookieLogin == IF has_creds THEN "login_email" ELSE "login_failed"

\* The answers _check_login_status can give over the pages the run can see.
LoginAnswers == {CheckLoginStatus(p) : p \in PageObs}

\* The answers _is_cf_challenge can give over the pages the run can see.
ChallengeAnswers == {IsCfChallenge(o) : o \in CfPagesRun}

\* The buttons the selector search of _renew_server can return.
ButtonAnswers == {FindButton(obs) : obs \in ButtonPages}

\* The statuses _detect_click_result can return during a run.
ClickAnswers == {DetectClickResult(m) : m \in MarkerPagesRun}

\* The click counts _handle_confirm_dialog can produce.
ConfirmAnswers == {HandleConfirmDialog(d) : d \in ConfirmPages}

\* run()'s "if has_cookie: login_ok = self._login_with_cookies()"
LoginWithCookies ==
    /\ pc = "login_cookie"
    /\ IF ~has_cookie
       THEN pc' = AfterCookieLogin /\ idx' = idx
       ELSE \E add \in {"ok", "raises"}, g \in GotoOutcomes, cf \in BOOLEAN,
               logged_in \in LoginAnswers :
            IF add = "raises" THEN pc' = AfterCookieLogin /\ idx' = idx
            ELSE IF g = "error" THEN pc' = "except" /\ idx' = idx
            ELSE IF ~cf THEN pc' = AfterCookieLogin /\ idx' = idx
            ELSE IF logged_in THEN pc' = "nav" /\ idx' = 1
            ELSE pc' = AfterCookieLogin /\ idx' = idx
    /\ login_ok' = IF pc' = "nav" THEN "yes" ELSE login_ok
    /\ UNCHANGED <<server_list, has_cookie, has_creds, group, results, browser, closes,
                   renew_button, result_status, cur, clicked, raised_at, report,
                   exit_code>>
    /\ UNCHANGED <<cfvars, clvars, rvars, lvars, pvars>>

\* _login_with_email up to the selector loop: goto, _wait_for_cf
LoginWithEmailOpen ==
    /\ pc = "login_email"
    /\ \E g \in GotoOutcomes, cf \in BOOLEAN :
        IF g = "error" THEN pc' = "except" /\ group' = 0
        ELSE IF ~cf THEN pc' = "login_failed" /\ group' = 0
        ELSE pc' = "email_group" /\ group' = 1
    /\ UNCHANGED <<server_list, has_cookie, has_creds, login_ok, idx, results, browser, closes,
                   renew_button, result_status, cur, clicked, raised_at, report,
                   exit_code>>
    /\ UNCHANGED <<cfvars, clvars, rvars, lvars, pvars>>

\* one pass of "for i, (...) in enumerate(selector_groups)": the fields are
\* absent, something raises before or after the submit, or the form is
\* submitted and the state probe is read (the result of the _wait_for_cf call
\* after the submit is not used)
LoginWithEmailGroup ==
    /\ pc = "email_group"
    /\ \E f \in {"absent", "raises", "submit_raises", "submitted"},
          logged_in \in LoginAnswers :
        IF f = "submitted" /\ logged_in
        THEN pc' = "nav" /\ idx' = 1 /\ group' = 0
        ELSE IF group < NumSelectorGroups
        THEN pc' = pc /\ idx' = idx /\ group' = group + 1
        ELSE pc' = "login_failed" /\ idx' = idx /\ group' = 0
    /\ login_ok' = IF pc' = "nav" THEN "yes" ELSE login_ok
    /\ UNCHANGED <<server_list, has_cookie, has_creds, results, browser, closes,
                   renew_button, result_status, cur, clicked, raised_at, report,
                   exit_code>>
    /\ UNCHANGED <<cfvars, clvars, rvars, lvars, pvars>>

\* run()'s "if not login_ok": close the browser, report every target
LoginFailed ==
    /\ pc = "login_failed"
    /\ browser' = "closed"
    /\ closes' = closes + 1
    /\ results' = AllTargets(server_list, STATUS_LOGIN_FAILED)
    /\ pc' = "returned"
    /\ login_ok' = "no"
    /\ UNCHANGED <<server_list, has_cookie, has_creds, idx, group,
                   renew_button, result_status, cur, clicked, raised_at, report,
                   exit_code>>
    /\ UNCHANGED <<cfvars, clvars, rvars, lvars, pvars>>

(* --------------------- weirdhost.py: _renew_server --------------------- *)
\* a mutant of Return: the first result ends the for loop
ReturnEndsLoop(status) ==
    /\ results' = Append(results, FormatResult(ServerId(server_list[idx]), status))
    /\ idx' = idx
    /\ pc' = "close"
    /\ renew_button' = NoButton
    /\ result_status' = "none"

\* _renew_server returns f"{server_id}:{status}"; run() appends it and goes on
\* to the next target, or leaves the loop after the last one
Return(status) ==
    /\ results' = Append(results, FormatResult(ServerId(server_list[idx]), status))
    /\ IF idx < Len(server_list)
       THEN idx' = idx + 1 /\ pc' = "nav"
       ELSE idx' = idx /\ pc' = "close"
    /\ renew_button' = NoButton
    /\ result_status' = "none"

\* an exception leaves _renew_server and the for loop
Raise ==
    /\ pc' = "except"
    /\ raised_at' = idx
    /\ UNCHANGED <<idx, results, renew_button, result_status>>

\* _safe_goto: goto, _wait_for_cf (SpecCf models its loop; here it answers
\* resolved or timed out), _check_login_status
SafeGoto ==
    /\ pc = "nav"
    /\ \E g \in GotoOutcomes, cf \in BOOLEAN,
          logged_in \in LoginAnswers :
        IF g = "error"
        THEN /\ Raise
             /\ cur' = [NoTarget EXCEPT !.target = idx]
        ELSE /\ cur' = [NoTarget EXCEPT !.target = idx, !.gate = ~cf,
                                        !.lost = cf /\ ~logged_in,
                                        !.steps = <<"gate">>]
             /\ pc' = IF cf /\ logged_in THEN "idle" ELSE "diagnose_cf"
             /\ UNCHANGED <<idx, results, renew_button, result_status, raised_at>>
    /\ UNCHANGED <<server_list, has_cookie, has_creds, login_ok, group, browser, closes, clicked,
                   report, exit_code>>
    /\ UNCHANGED <<cfvars, clvars, rvars, lvars, pvars>>

\* "if self._is_cf_challenge(page)": a second probe of the page
DiagnoseCf ==
    /\ pc = "diagnose_cf"
    /\ \E challenged \in ChallengeAnswers :
        IF challenged
        THEN Return(STATUS_CF_BLOCKED)
        ELSE /\ pc' = "diagnose_login"
             /\ UNCHANGED <<idx, results, renew_button, result_status>>
    /\ UNCHANGED <<server_list, has_cookie, has_creds, login_ok, group, browser, closes, cur,
                   clicked, raised_at, report, exit_code>>
    /\ UNCHANGED <<cfvars, clvars, rvars, lvars, pvars>>

\* "if not self._check_login_status(page)": a second probe of the page
DiagnoseLogin ==
    /\ pc = "diagnose_login"
    /\ \E logged_in \in LoginAnswers :
        IF ~logged_in
        THEN Return(STATUS_LOGIN_LOST)
        ELSE Return(STATUS_NAV_FAILED)
    /\ UNCHANGED <<server_list, has_cookie, has_creds, login_ok, group, browser, closes, cur,
                   clicked, raised_at, report, exit_code>>
    /\ UNCHANGED <<cfvars, clvars, rvars, lvars, pvars>>

\* page.wait_for_load_state("networkidle"): only its time-out is caught
WaitNetworkIdle ==
    /\ pc = "idle"
    /\ \E w \in GotoOutcomes :
        IF w = "error"
        THEN Raise
        ELSE /\ pc' = "find"
             /\ UNCHANGED <<idx, results, renew_button, result_status, raised_at>>
    /\ UNCHANGED <<server_list, has_cookie, has_creds, login_ok, group, browser, closes, cur,
                   clicked, report, exit_code>>
    /\ UNCHANGED <<cfvars, clvars, rvars, lvars, pvars>>

\* the search for the renew button
FindRenewButton ==
    /\ pc = "find"
    /\ \E b \in ButtonAnswers :
        IF b = NoButton
        THEN Return(STATUS_NO_BUTTON)
        ELSE /\ renew_button' = b
             /\ pc' = "enabled"
             /\ UNCHANGED <<idx, results, result_status>>
    /\ UNCHANGED <<server_list, has_cookie, has_creds, login_ok, group, browser, closes, cur,
                   clicked, raised_at, report, exit_code>>
    /\ UNCHANGED <<cfvars, clvars, rvars, lvars, pvars>>

\* renew_button.is_enabled(timeout=3000); an exception is passed over
CheckEnabled ==
    /\ pc = "enabled"
    /\ \E e \in {"enabled", "disabled", "raises"} :
        IF e = "disabled"
        THEN /\ Return(STATUS_ALREADY_RENEWED)
             /\ cur' = [cur EXCEPT !.disabled = TRUE]
        ELSE /\ pc' = "click"
             /\ UNCHANGED <<idx, results, renew_button, result_status, cur>>
    /\ UNCHANGED <<server_list, has_cookie, has_creds, login_ok, group, browser, closes, clicked,
                   raised_at, report, exit_code>>
    /\ UNCHANGED <<cfvars, clvars, rvars, lvars, pvars>>

\* scroll_into_view_if_needed, then renew_button.click(timeout=10000)
ClickRenew ==
    /\ pc = "click"
    /\ \E c \in {"ok", "scroll_raises", "click_raises"} :
        /\ IF c = "scroll_raises"
           THEN UNCHANGED <<cur, clicked>>
           ELSE /\ cur' = [cur EXCEPT !.renew = @ + 1, !.steps = Append(@, "click")]
                /\ clicked' = [clicked EXCEPT ![server_list[idx]] = @ + 1]
        /\ IF c = "ok"
           THEN /\ pc' = "detect"
                /\ UNCHANGED <<idx, results, renew_button, result_status>>
           ELSE Return(STATUS_RUNTIME_ERROR)
    /\ UNCHANGED <<server_list, has_cookie, has_creds, login_ok, group, browser, closes,
                   raised_at, report, exit_code>>
    /\ UNCHANGED <<cfvars, clvars, rvars, lvars, pvars>>

\* time.sleep(3); result_status = self._detect_click_result(page, server_id)
DetectResult ==
    /\ pc = "detect"
    /\ \E st \in ClickAnswers : result_status' = st
    /\ cur' = [cur EXCEPT !.steps = Append(@, "classify")]
    /\ pc' = "confirm"
    /\ UNCHANGED <<server_list, has_cookie, has_creds, login_ok, idx, group, results,
                   browser, closes, renew_button, clicked, raised_at, report,
                   exit_code>>
    /\ UNCHANGED <<cfvars, clvars, rvars, lvars, pvars>>

\* a mutant of ConfirmDialog: a dialog button that was clicked decides the
\* status
ConfirmDialogDecides ==
    /\ pc = "confirm"
    /\ \E n \in ConfirmAnswers :
        /\ cur' = [cur EXCEPT !.confirm = n]
        /\ Return(IF n > 0 THEN STATUS_SUCCESS ELSE result_status)
    /\ UNCHANGED <<server_list, has_cookie, has_creds, login_ok, group, browser, closes, clicked,
                   raised_at, report, exit_code>>
    /\ UNCHANGED <<cfvars, clvars, rvars, lvars, pvars>>

\* self._handle_confirm_dialog(page, server_id); return the status
ConfirmDialog ==
    /\ pc = "confirm"
    /\ \E n \in ConfirmAnswers :
        cur' = [cur EXCEPT !.confirm = n]
    /\ Return(result_status)
    /\ UNCHANGED <<server_list, has_cookie, has_creds, login_ok, group, browser, closes, clicked,
                   raised_at, report, exit_code>>
    /\ UNCHANGED <<cfvars, clvars, rvars, lvars, pvars>>

\* a mutant of CloseBrowser: the statement after the close raises, so that
\* the "except Exception" handler runs with the browser already closed
CloseBrowserThenRaise ==
    /\ pc = "close"
    /\ browser' = "closed"
    /\ closes' = closes + 1
    /\ pc' = "except"
    /\ UNCHANGED <<server_list, has_cookie, has_creds, login_ok, idx, group, results,
                   renew_button, result_status, cur, clicked, raised_at, report,
                   exit_code>>
    /\ UNCHANGED <<cfvars, clvars, rvars, lvars, pvars>>

\* after the loop: self.browser.close()
CloseBrowser ==
    /\ pc = "close"
    /\ browser' = "closed"
    /\ closes' = closes + 1
    /\ pc' = "returned"
    /\ cur' = NoTarget
    /\ UNCHANGED <<server_list, has_cookie, has_creds, login_ok, idx, group, results,
                   renew_button, result_status, clicked, raised_at, report,
                   exit_code>>
    /\ UNCHANGED <<cfvars, clvars, rvars, lvars, pvars>>

\* run()'s "except Exception": close the browser if there is one, and report
\* every target as runtime_error only when results is still empty
ExceptHandler ==
    /\ pc = "except"
    /\ browser' = IF browser = "none" THEN "none" ELSE "closed"
    /\ closes' = IF browser = "none" THEN closes ELSE closes + 1
    /\ results' = IF results = <<>>
                  THEN AllTargets(server_list, STATUS_RUNTIME_ERROR)
                  ELSE results
    /\ pc' = "returned"
    /\ cur' = NoTarget
    /\ UNCHANGED <<server_list, has_cookie, has_creds, login_ok, idx, group,
                   renew_button, result_status, clicked, raised_at, report,
                   exit_code>>
    /\ UNCHANGED <<cfvars, clvars, rvars, lvars, pvars>>

\* main(), after run() returned: print_summary, update_readme, sys.exit
MainExit ==
    /\ pc = "returned"
    /\ report' = UpdateReadme(results)
    /\ exit_code' = IF PrintSummary(results) THEN 0 ELSE 1
    /\ pc' = "exited"
    /\ UNCHANGED <<server_list, has_cookie, has_creds, login_ok, idx, group, results,
                   browser, closes, renew_button, result_status, cur, clicked, raised_at>>
    /\ UNCHANGED <<cfvars, clvars, rvars, lvars, pvars>>

WNext ==
    \/ RunStart
    \/ CreateBrowser
    \/ LoginWithCookies
    \/ LoginWithEmailOpen
    \/ LoginWithEmailGroup
    \/ LoginFailed
    \/ SafeGoto
    \/ DiagnoseCf
    \/ DiagnoseLogin
    \/ WaitNetworkIdle
    \/ FindRenewButton
    \/ CheckEnabled
    \/ ClickRenew
    \/ DetectResult
    \/ ConfirmDialog
    \/ CloseBrowser
    \/ ExceptHandler
    \/ MainExit

Spec == WInit /\ [][WNext]_vars

(* --------------------- weirdhost.py: _wait_for_cf ---------------------- *)
\* Time is counted in whole seconds from "start = time.time()".
CF_WAIT_TIMEOUT == 120
\* _login_with_email's "self._wait_for_cf(self.page, timeout=60)"
CF_LOGIN_TIMEOUT == 60
\* time.sleep(3) at the end of a challenged iteration, and after a click
POLL_INTERVAL == 3
\* cb.first.click(timeout=5000)
CLICK_TIMEOUT == 5

CfInit ==
    /\ cf_pc = "test"
    /\ cf_timeout \in {CF_WAIT_TIMEOUT, CF_LOGIN_TIMEOUT}
    /\ cf_now = 0
    /\ cf_was = FALSE
    /\ cf_ret = "none"
    /\ WIdle /\ ClIdle /\ RIdle /\ LIdle /\ PIdle

\* "while time.time() - start < timeout", and "return False" after the loop
CfLoopTest ==
    /\ cf_pc = "test"
    /\ IF cf_now < cf_timeout
       THEN cf_pc' = "probe" /\ cf_ret' = cf_ret
       ELSE cf_pc' = "done" /\ cf_ret' = "timed_out"
    /\ UNCHANGED <<cf_timeout, cf_now, cf_was>>
    /\ UNCHANGED <<wvars, clvars, rvars, lvars, pvars>>

\* "if self._is_cf_challenge(page)": the probe takes up to MaxDetect seconds
CfProbe ==
    /\ cf_pc = "probe"
    /\ \E d \in 0..MaxDetect, o \in CfPagesRun :
        /\ cf_now' = cf_now + d
        /\ IF IsCfChallenge(o)
           THEN cf_pc' = "click" /\ cf_was' = TRUE /\ cf_ret' = cf_ret
           ELSE cf_pc' = "done" /\ cf_was' = cf_was /\ cf_ret' = "resolved"
    /\ UNCHANGED cf_timeout
    /\ UNCHANGED <<wvars, clvars, rvars, lvars, pvars>>

\* the Turnstile checkbox: not there, clicked (then time.sleep(3)), or the
\* click raises, after up to CLICK_TIMEOUT seconds
CfClickCheckbox ==
    /\ cf_pc = "click"
    /\ \E k \in {"none", "clicked", "raises"}, c \in 0..CLICK_TIMEOUT :
        cf_now' = CASE k = "none" -> cf_now
                    [] k = "clicked" -> cf_now + c + POLL_INTERVAL
                    [] k = "raises" -> cf_now + c
    /\ cf_pc' = "sleep"
    /\ UNCHANGED <<cf_timeout, cf_was, cf_ret>>
    /\ UNCHANGED <<wvars, clvars, rvars, lvars, pvars>>

\* a mutant of CfSleep: the iteration ends without the clock moving on
CfSleepFrozen ==
    /\ cf_pc = "sleep"
    /\ cf_pc' = "test"
    /\ UNCHANGED <<cf_timeout, cf_now, cf_was, cf_ret>>
    /\ UNCHANGED <<wvars, clvars, rvars, lvars, pvars>>

\* time.sleep(3); continue
CfSleep ==
    /\ cf_pc = "sleep"
    /\ cf_now' = cf_now + POLL_INTERVAL
    /\ cf_pc' = "test"
    /\ UNCHANGED <<cf_timeout, cf_was, cf_ret>>
    /\ UNCHANGED <<wvars, clvars, rvars, lvars, pvars>>

CfNext == CfLoopTest \/ CfProbe \/ CfClickCheckbox \/ CfSleep

SpecCf == CfInit /\ [][CfNext]_vars

(* ---------------- weirdhost.py: _detect_click_result ------------------- *)
NumMarkerSelectors == NumSuccessSelectors + NumAlreadySelectors + NumErrorSelectors

\* the page whose selectors in T answer g and whose other selectors are absent
MarkerPage(T, g) ==
    LET f == [i \in 1..NumMarkerSelectors |-> IF i \in T THEN g[i] ELSE "absent"]
    IN  [success |-> [i \in 1..NumSuccessSelectors |-> f[i]],
         already |-> [i \in 1..NumAlreadySelectors |-> f[NumSuccessSelectors + i]],
         error |-> [i \in 1..NumErrorSelectors |->
                        f[NumSuccessSelectors + NumAlreadySelectors + i]]]

\* the page on which every marker selector answers o
UniformMarkerPage(o) ==
    MarkerPage(1..NumMarkerSelectors, [i \in 1..NumMarkerSelectors |-> o])

\* the sets of at most k marker selectors
ResponderSets(k) ==
    { T \in SUBSET (1..NumMarkerSelectors) : Cardinality(T) <= k }

ClInit ==
    \* a page on which at most MaxMarkers selectors respond, or one on which
    \* all selectors answer alike (all probes raise, all are hidden, ...)
    /\ \/ \E T \in ResponderSets(MaxMarkers) :
            \E g \in [T -> Responding] : cl_page = MarkerPage(T, g)
       \/ \E o \in MarkerObs : cl_page = UniformMarkerPage(o)
    /\ cl_result = "none"
    /\ WIdle /\ CfIdle /\ RIdle /\ LIdle /\ PIdle

Classify ==
    /\ DOMAIN cl_page # {}
    /\ cl_result = "none"
    /\ cl_result' = DetectClickResult(cl_page)
    /\ UNCHANGED cl_page
    /\ UNCHANGED <<wvars, cfvars, rvars, lvars, pvars>>

ClNext == Classify

SpecClassify == ClInit /\ [][ClNext]_vars

(* ------------------------------ renew.py ------------------------------- *)
\* process_server's "status" texts, by name
R_LOST == "session_lost"
R_NO_BUTTON == "no_button"
R_SUCCESS == "success"
R_COOLDOWN == "cooldown"
R_LIMITED == "other_limit"
R_UNKNOWN == "unknown_result"
R_NO_RESPONSE == "no_response"
R_ERROR == "error"

\* len(target_texts) in process_server
RNumTargetTexts == 4

\* "if not SERVER_URLS_STR": the stripped string is empty
RUrlsStrEmpty(fields) == Len(fields) = 1 /\ Strip(fields[1], Whitespace) = <<>>

\* One target text's locator: count() raises, or it matches a list of
\* elements: not visible (hidden), visible and not enabled (disabled), visible
\* and enabled (enabled), or is_visible / is_enabled raises (raises).
RElementLists ==
    UNION {[1..n -> {"hidden", "disabled", "enabled", "raises"}] : n \in 0..MaxMatches}
RSelectorObs == RElementLists \cup {CountRaises}

\* for i in range(loc.count()): the first element that is visible and
\* enabled, 0 when there is none, -1 when a probe raises first
RECURSIVE RFirstUsable(_, _)
RFirstUsable(els, i) ==
    IF i > Len(els) THEN 0
    ELSE IF els[i] = "enabled" THEN i
    ELSE IF els[i] = "raises" THEN -1
    ELSE RFirstUsable(els, i + 1)

\* for txt in target_texts: ... "if btn: break"; any exception leaves the
\* loop for process_server's except clause (sel = -1)
RECURSIVE RFindButtonFrom(_, _)
RFindButtonFrom(obs, s) ==
    IF s > RNumTargetTexts THEN NoButton
    ELSE IF obs[s] = CountRaises THEN [sel |-> -1, nth |-> 0]
    ELSE LET k == RFirstUsable(obs[s], 1)
         IN  IF k > 0 THEN [sel |-> s, nth |-> k]
             ELSE IF k < 0 THEN [sel |-> -1, nth |-> 0]
             ELSE RFindButtonFrom(obs, s + 1)

RFindButton(obs) == RFindButtonFrom(obs, 1)

\* the pages of a run: at most one target text responds
RButtonPages ==
    { [s \in 1..RNumTargetTexts |-> <<>>] } \cup
    { [s \in 1..RNumTargetTexts |-> IF s = t THEN o ELSE <<>>] :
        t \in 1..RNumTargetTexts, o \in RSelectorObs \ {<<>>} }

\* What the result analysis reads: a probe raises; the .swal2-success icon is
\* visible; full_text holds a success keyword, the cooldown phrase, a failure
\* keyword, other text.
RFeedback ==
    { o \in [raises : BOOLEAN, icon : BOOLEAN, success_kw : BOOLEAN,
             cooldown : BOOLEAN, fail_kw : BOOLEAN, other : BOOLEAN] :
        o.raises => ~(o.icon \/ o.success_kw \/ o.cooldown \/ o.fail_kw \/ o.other) }

\* a mutant of RClassify: silence counts as success
RClassifyDefaultSuccess(o) ==
    IF o.raises THEN R_ERROR
    ELSE IF o.icon \/ o.success_kw THEN R_SUCCESS
    ELSE IF o.cooldown THEN R_COOLDOWN
    ELSE IF o.fail_kw THEN R_LIMITED
    ELSE IF o.success_kw \/ o.cooldown \/ o.fail_kw \/ o.other THEN R_UNKNOWN
    ELSE R_SUCCESS

RClassify(o) ==
    IF o.raises THEN R_ERROR
    ELSE IF o.icon \/ o.success_kw THEN R_SUCCESS
    ELSE IF o.cooldown THEN R_COOLDOWN
    ELSE IF o.fail_kw THEN R_LIMITED
    ELSE IF o.success_kw \/ o.cooldown \/ o.fail_kw \/ o.other THEN R_UNKNOWN
    ELSE R_NO_RESPONSE

\* update_readme: one table row per element of results
RUpdateReadme(rs) == [written |-> TRUE, rows |-> rs]

\* what is recorded about the target being processed: its index, whether
\* its page was on the login path, whether its first visible button was
\* disabled, the clicks made, and the steps taken so far, in order
RNoTarget ==
    [target |-> 0, lost |-> FALSE, first_disabled |-> FALSE, renew |-> 0,
     confirm |-> 0, steps |-> <<>>]

\* the first visible element of the page, in selector and document order,
\* is not enabled
RFirstVisibleDisabled(obs) ==
    \E s \in 1..RNumTargetTexts :
        /\ obs[s] # CountRaises
        /\ \E i \in 1..Len(obs[s]) :
            /\ obs[s][i] = "disabled"
            /\ \A j \in 1..(i - 1) : obs[s][j] = "hidden"
        /\ \A t \in 1..(s - 1) :
            obs[t] # CountRaises /\ \A j \in 1..Len(obs[t]) : obs[t][j] = "hidden"

RInit ==
    /\ r_urls_str \in RawUrlStrings
    /\ r_cookie \in BOOLEAN
    /\ r_creds \in BOOLEAN
    /\ r_pc = "run"
    /\ r_calls = <<>>
    /\ r_urls = <<>>
    /\ r_idx = 0
    /\ r_results = <<>>
    /\ r_browser = "none"
    /\ r_cur = RNoTarget
    /\ r_report = [written |-> FALSE, rows |-> <<>>]
    /\ r_exit = -1
    /\ WIdle /\ CfIdle /\ ClIdle /\ LIdle /\ PIdle

\* run(): "if not SERVER_URLS_STR: sys.exit(1)", then urls = [...]
RRunStart ==
    /\ r_pc = "run"
    /\ IF RUrlsStrEmpty(r_urls_str)
       THEN r_exit' = 1 /\ r_pc' = "exited" /\ r_urls' = r_urls
       ELSE r_exit' = r_exit /\ r_pc' = "init_browser"
            /\ r_urls' = ParseServerList(r_urls_str)
    /\ UNCHANGED <<r_urls_str, r_cookie, r_creds, r_calls, r_idx, r_results, r_browser,
                   r_cur, r_report>>
    /\ UNCHANGED <<wvars, cfvars, clvars, lvars, pvars>>

\* init_browser: nothing catches what it raises; the process ends with 1
RInitBrowser ==
    /\ r_pc = "init_browser"
    /\ \E o \in {"ok", "raises"} :
        IF o = "ok"
        THEN r_browser' = "open" /\ r_pc' = "login" /\ r_exit' = r_exit
        ELSE r_browser' = r_browser /\ r_pc' = "exited" /\ r_exit' = 1
    /\ UNCHANGED <<r_urls_str, r_cookie, r_creds, r_calls, r_urls, r_idx, r_results,
                   r_cur, r_report>>
    /\ UNCHANGED <<wvars, cfvars, clvars, lvars, pvars>>

\* one login path: it raises, or ends on or off the login page
RLoginPath == {"raises", "on_login", "off_login"}

\* login(): the cookie path, then the account path
RLoginResult(c, e) ==
    \/ r_cookie /\ c = "off_login"
    \/ r_creds /\ e = "off_login"

\* the paths login() enters: the account path only when the cookie path
\* did not return True
RLoginCalls(c) ==
    (IF r_cookie THEN <<"cookie">> ELSE <<>>) \o
    (IF r_creds /\ ~(r_cookie /\ c = "off_login") THEN <<"email">> ELSE <<>>)

\* "if not self.login(): sys.exit(1)", then the loop starts (or, with no
\* url, ends at once)
RLogin ==
    /\ r_pc = "login"
    /\ \E c \in RLoginPath, e \in RLoginPath :
        /\ r_calls' = RLoginCalls(c)
        /\ IF RLoginResult(c, e)
           THEN /\ r_exit' = r_exit
                /\ IF r_urls = <<>>
                   THEN r_pc' = "finish" /\ r_idx' = r_idx
                   ELSE r_pc' = "nav" /\ r_idx' = 1
           ELSE r_exit' = 1 /\ r_pc' = "exited" /\ r_idx' = r_idx
    /\ UNCHANGED <<r_urls_str, r_cookie, r_creds, r_urls, r_results, r_browser,
                   r_cur, r_report>>
    /\ UNCHANGED <<wvars, cfvars, clvars, lvars, pvars>>

\* process_server returns a dict; run() appends it, sleeps and goes on
RReturn(status) ==
    /\ r_results' = Append(r_results,
                           [id |-> ServerId(r_urls[r_idx]), status |-> status])
    /\ IF r_idx < Len(r_urls)
       THEN r_idx' = r_idx + 1 /\ r_pc' = "nav"
       ELSE r_idx' = r_idx /\ r_pc' = "finish"

\* goto, check_cf (which swallows every exception), the login-page test
RNavigate ==
    /\ r_pc = "nav"
    /\ \E g \in {"ok", "raises"}, on_login \in BOOLEAN :
        /\ r_cur' = [RNoTarget EXCEPT !.target = r_idx,
                                      !.lost = g = "ok" /\ on_login]
        /\ IF g = "raises" THEN RReturn(R_ERROR)
           ELSE IF on_login THEN RReturn(R_LOST)
           ELSE r_pc' = "find" /\ UNCHANGED <<r_idx, r_results>>
    /\ UNCHANGED <<r_urls_str, r_cookie, r_creds, r_calls, r_urls, r_browser, r_report,
                   r_exit>>
    /\ UNCHANGED <<wvars, cfvars, clvars, lvars, pvars>>

\* the search for a button that is visible and enabled
RFindRenewButton ==
    /\ r_pc = "find"
    /\ \E obs \in RButtonPages :
        /\ r_cur' = [r_cur EXCEPT !.first_disabled = RFirstVisibleDisabled(obs)]
        /\ LET b == RFindButton(obs)
           IN  IF b.sel < 0 THEN RReturn(R_ERROR)
               ELSE IF b = NoButton THEN RReturn(R_NO_BUTTON)
               ELSE r_pc' = "click" /\ UNCHANGED <<r_idx, r_results>>
    /\ UNCHANGED <<r_urls_str, r_cookie, r_creds, r_calls, r_urls, r_browser, r_report,
                   r_exit>>
    /\ UNCHANGED <<wvars, cfvars, clvars, lvars, pvars>>

\* btn.click(), the 10 second wait, the best-effort Turnstile click
RClickRenew ==
    /\ r_pc = "click"
    /\ r_cur' = [r_cur EXCEPT !.renew = @ + 1, !.steps = Append(@, "click")]
    /\ \E c \in {"ok", "raises"} :
        IF c = "raises" THEN RReturn(R_ERROR)
        ELSE r_pc' = "confirm" /\ UNCHANGED <<r_idx, r_results>>
    /\ UNCHANGED <<r_urls_str, r_cookie, r_creds, r_calls, r_urls, r_browser, r_report,
                   r_exit>>
    /\ UNCHANGED <<wvars, cfvars, clvars, lvars, pvars>>

\* a mutant of RClickConfirm: a confirm button that is not found or cannot be
\* clicked ends the target with the error row
RClickConfirmStrict ==
    /\ r_pc = "confirm"
    /\ \E c \in {"timeout", "invisible", "clicked", "click_raises"} :
        /\ r_cur' = [r_cur EXCEPT !.confirm =
                         IF c \in {"clicked", "click_raises"} THEN @ + 1 ELSE @,
                                  !.steps = Append(@, "confirm")]
        /\ IF c = "clicked"
           THEN r_pc' = "classify" /\ UNCHANGED <<r_idx, r_results>>
           ELSE RReturn(R_ERROR)
    /\ UNCHANGED <<r_urls_str, r_cookie, r_creds, r_calls, r_urls, r_browser,
                   r_report, r_exit>>
    /\ UNCHANGED <<wvars, cfvars, clvars, lvars, pvars>>

\* the confirm button: wait_for_selector times out, the button is not
\* visible, it is clicked, or the click (or expect_response) raises; every
\* exception is logged and the analysis follows
RClickConfirm ==
    /\ r_pc = "confirm"
    /\ \E c \in {"timeout", "invisible", "clicked", "click_raises"} :
        r_cur' = [r_cur EXCEPT !.confirm =
                      IF c \in {"clicked", "click_raises"} THEN @ + 1 ELSE @,
                               !.steps = Append(@, "confirm")]
    /\ r_pc' = "classify"
    /\ UNCHANGED <<r_urls_str, r_cookie, r_creds, r_calls, r_urls, r_idx, r_results,
                   r_browser, r_report, r_exit>>
    /\ UNCHANGED <<wvars, cfvars, clvars, lvars, pvars>>

\* the result analysis
RAnalyse ==
    /\ r_pc = "classify"
    /\ \E o \in RFeedback : RReturn(RClassify(o))
    /\ r_cur' = [r_cur EXCEPT !.steps = Append(@, "classify")]
    /\ UNCHANGED <<r_urls_str, r_cookie, r_creds, r_calls, r_urls, r_browser,
                   r_report, r_exit>>
    /\ UNCHANGED <<wvars, cfvars, clvars, lvars, pvars>>

\* self.browser.close(); self.update_readme(results); run() returns
RFinish ==
    /\ r_pc = "finish"
    /\ r_browser' = "closed"
    /\ r_report' = RUpdateReadme(r_results)
    /\ r_exit' = 0
    /\ r_pc' = "exited"
    /\ r_cur' = RNoTarget
    /\ UNCHANGED <<r_urls_str, r_cookie, r_creds, r_calls, r_urls, r_idx, r_results>>
    /\ UNCHANGED <<wvars, cfvars, clvars, lvars, pvars>>

RNext ==
    \/ RRunStart
    \/ RInitBrowser
    \/ RLogin
    \/ RNavigate
    \/ RFindRenewButton
    \/ RClickRenew
    \/ RClickConfirm
    \/ RAnalyse
    \/ RFinish

SpecRenew == RInit /\ [][RNext]_vars

(* -------------------- weirdhost.py: the login section ------------------ *)
\* run() from "login_ok = False" to "if not login_ok", with the two login
\* paths step by step.  run() gets here only with a credential configured.
NoProbe == [url |-> "none", markers |-> "none", gate |-> "none"]

\* the page p read by _check_login_status after _wait_for_cf returned cf
Probe(p, cf) ==
    [url |-> p.url, markers |-> p.markers,
     gate |-> IF cf THEN "resolved" ELSE "timed_out"]

LInit ==
    /\ l_cookie \in BOOLEAN
    /\ l_creds \in BOOLEAN
    /\ l_cookie \/ l_creds
    /\ l_pc = "cookie"
    /\ l_group = 0
    /\ l_login_ok = "untested"
    /\ l_calls = <<>>
    /\ l_auth = "none"
    /\ l_submits = 0
    /\ l_gate = "none"
    /\ l_probe = NoProbe
    /\ l_tokens = FALSE
    /\ WIdle /\ CfIdle /\ ClIdle /\ RIdle /\ PIdle

\* a mutant of LAfterCookie: the password path is entered whatever the
\* cookie path returned
LAfterCookieAlways(ok) == IF l_creds THEN "email_open" ELSE "done"

\* "if not login_ok and has_creds: login_ok = self._login_with_email()"
LAfterCookie(ok) == IF ~ok /\ l_creds THEN "email_open" ELSE "done"

\* login_ok when run() has no further login call to make
LSettled(next, ok) ==
    IF next # "done" THEN l_login_ok ELSE IF ok THEN "yes" ELSE "no"

\* an exception leaves the login path for run()'s except clause
LRaise ==
    /\ l_pc' = "done"
    /\ l_login_ok' = "raised"
    /\ UNCHANGED <<l_group, l_auth, l_submits, l_gate, l_probe>>

\* whether the cookies are in the context when _login_with_cookies returns:
\* add_cookies put them there, and only the branch of the failed state probe
\* calls self.context.clear_cookies()
CookiesLeft(add, cf, logged_in) == add = "ok" /\ (~cf \/ logged_in)

\* "if has_cookie: login_ok = self._login_with_cookies()"
LLoginWithCookies ==
    /\ l_pc = "cookie"
    /\ IF ~l_cookie
       THEN /\ l_pc' = LAfterCookie(FALSE)
            /\ l_login_ok' = LSettled(l_pc', FALSE)
            /\ UNCHANGED <<l_calls, l_auth, l_group, l_submits, l_gate, l_probe,
                           l_tokens>>
       ELSE /\ l_calls' = Append(l_calls, "cookie")
            /\ \E add \in {"ok", "raises"}, g \in GotoOutcomes, cf \in BOOLEAN,
                  p \in PageObs :
                 IF add = "ok" /\ g = "error"
                 THEN LRaise /\ l_tokens' = TRUE
                 ELSE LET ok == add = "ok" /\ cf /\ CheckLoginStatus(p)
                      IN  /\ l_tokens' = CookiesLeft(add, cf, CheckLoginStatus(p))
                          /\ l_pc' = LAfterCookie(ok)
                          /\ l_login_ok' = LSettled(l_pc', ok)
                          /\ l_auth' = IF ok THEN "cookie" ELSE l_auth
                          /\ l_probe' = IF add = "ok" /\ cf THEN Probe(p, cf)
                                        ELSE l_probe
                          /\ UNCHANGED <<l_group, l_submits, l_gate>>
    /\ UNCHANGED <<l_cookie, l_creds>>
    /\ UNCHANGED <<wvars, cfvars, clvars, rvars, pvars>>

\* _login_with_email up to the selector loop: goto, then
\* "if not self._wait_for_cf(self.page): return False"
LLoginWithEmailOpen ==
    /\ l_pc = "email_open"
    /\ l_calls' = Append(l_calls, "email")
    /\ \E g \in GotoOutcomes, cf \in BOOLEAN :
        IF g = "error" THEN LRaise
        ELSE /\ l_gate' = IF cf THEN "resolved" ELSE "timed_out"
             /\ l_pc' = IF cf THEN "email_group" ELSE "done"
             /\ l_group' = IF cf THEN 1 ELSE l_group
             /\ l_login_ok' = IF cf THEN l_login_ok ELSE "no"
             /\ UNCHANGED <<l_auth, l_submits, l_probe>>
    /\ UNCHANGED <<l_cookie, l_creds, l_tokens>>
    /\ UNCHANGED <<wvars, cfvars, clvars, rvars, pvars>>

\* what one pass of the selector loop meets: a field is missing; filling
\* raises; the submit click raises; wait_for_load_state raises after the
\* submit; or the pass gets through to _check_login_status
FormOutcomes == {"absent", "fill_raises", "submit_raises", "load_raises", "checked"}

\* one pass of "for i, (...) in enumerate(selector_groups)".  Only a True
\* from _check_login_status returns; every other end of the pass goes on to
\* the next group, and "return False" follows the last one.
LLoginWithEmailGroup ==
    /\ l_pc = "email_group"
    /\ \E f \in FormOutcomes, cf \in BOOLEAN, p \in PageObs :
        LET ok == f = "checked" /\ CheckLoginStatus(p)
        IN  /\ l_submits' = IF f \in {"submit_raises", "load_raises", "checked"}
                            THEN l_submits + 1 ELSE l_submits
            /\ l_gate' = IF f = "checked"
                         THEN (IF cf THEN "resolved" ELSE "timed_out")
                         ELSE l_gate
            /\ l_auth' = IF ok THEN "email" ELSE l_auth
            /\ l_probe' = IF f = "checked" THEN Probe(p, cf) ELSE l_probe
            /\ IF ok
               THEN l_pc' = "done" /\ l_login_ok' = "yes" /\ l_group' = l_group
               ELSE IF l_group < NumSelectorGroups
               THEN l_pc' = l_pc /\ l_login_ok' = l_login_ok /\ l_group' = l_group + 1
               ELSE l_pc' = "done" /\ l_login_ok' = "no" /\ l_group' = l_group
    /\ UNCHANGED <<l_cookie, l_creds, l_calls, l_tokens>>
    /\ UNCHANGED <<wvars, cfvars, clvars, rvars, pvars>>

LNext == LLoginWithCookies \/ LLoginWithEmailOpen \/ LLoginWithEmailGroup

SpecLogin == LInit /\ [][LNext]_vars

(* ------------------- weirdhost.py: _is_cf_challenge -------------------- *)
\* _is_cf_challenge called once on a page
ChallengeInit ==
    /\ p_fn = "_is_cf_challenge"
    /\ p_arg \in CfObs
    /\ p_ret = <<>>
    /\ WIdle /\ CfIdle /\ ClIdle /\ RIdle /\ LIdle

CallIsCfChallenge ==
    /\ p_fn = "_is_cf_challenge"
    /\ p_ret = <<>>
    /\ p_ret' = <<IsCfChallenge(p_arg)>>
    /\ UNCHANGED <<p_fn, p_arg>>
    /\ UNCHANGED <<wvars, cfvars, clvars, rvars, lvars>>

ChallengeNext == CallIsCfChallenge

SpecChallenge == ChallengeInit /\ [][ChallengeNext]_vars

(* -------------------- the search for the renew button ------------------ *)
\* the page on which selector t1 answers o1, selector t2 answers o2 and every
\* other selector matches nothing
TwoSelectorPage(n, t1, o1, t2, o2) ==
    [s \in 1..n |-> IF s = t1 THEN o1 ELSE IF s = t2 THEN o2 ELSE <<>>]

\* weirdhost.py: the selector loop of _renew_server run once on a page
FindButtonInit ==
    /\ p_fn = "_renew_server.find"
    /\ \E t1, t2 \in 1..NumButtonSelectors, o1, o2 \in SelectorObs :
          p_arg = TwoSelectorPage(NumButtonSelectors, t1, o1, t2, o2)
    /\ p_ret = <<>>
    /\ WIdle /\ CfIdle /\ ClIdle /\ RIdle /\ LIdle

CallFindButton ==
    /\ p_fn = "_renew_server.find"
    /\ p_ret = <<>>
    /\ p_ret' = <<FindButton(p_arg)>>
    /\ UNCHANGED <<p_fn, p_arg>>
    /\ UNCHANGED <<wvars, cfvars, clvars, rvars, lvars>>

FindButtonNext == CallFindButton

SpecFindButton == FindButtonInit /\ [][FindButtonNext]_vars

\* renew.py: the target_texts loop of process_server run once on a page
RFindButtonInit ==
    /\ p_fn = "process_server.find"
    /\ \E t1, t2 \in 1..RNumTargetTexts, o1, o2 \in RSelectorObs :
          p_arg = TwoSelectorPage(RNumTargetTexts, t1, o1, t2, o2)
    /\ p_ret = <<>>
    /\ WIdle /\ CfIdle /\ ClIdle /\ RIdle /\ LIdle

CallRFindButton ==
    /\ p_fn = "process_server.find"
    /\ p_ret = <<>>
    /\ p_ret' = <<RFindButton(p_arg)>>
    /\ UNCHANGED <<p_fn, p_arg>>
    /\ UNCHANGED <<wvars, cfvars, clvars, rvars, lvars>>

RFindButtonNext == CallRFindButton

SpecRFindButton == RFindButtonInit /\ [][RFindButtonNext]_vars

(* ------------------- renew.py: the result analysis --------------------- *)
\* What #swal2-title and #swal2-html-container can hold: nothing (not visible,
\* or empty), a success keyword, the cooldown phrase, a failure keyword, a
\* success keyword together with a failure keyword, or some other text.
RTexts == {"empty", "success_kw", "cooldown", "fail_kw", "success_and_fail", "other"}

\* the popups process_server can meet: a probe raises, or the success icon is
\* visible or not and the title and the content each hold a text
RFeedbackPages ==
    [raises : {FALSE}, icon : BOOLEAN, title : RTexts, content : RTexts] \cup
    { [raises |-> TRUE, icon |-> FALSE, title |-> "empty", content |-> "empty"] }

\* full_text = (swal_title + " " + swal_content).strip(), and what the
\* keyword tests find in it
RReadFeedback(pg) ==
    LET texts == {pg.title, pg.content}
    IN  [raises |-> pg.raises,
         icon |-> pg.icon,
         success_kw |-> texts \cap {"success_kw", "success_and_fail"} # {},
         cooldown |-> "cooldown" \in texts,
         fail_kw |-> texts \cap {"fail_kw", "success_and_fail"} # {},
         other |-> "other" \in texts]

RClassifyInit ==
    /\ p_fn = "process_server.classify"
    /\ p_arg \in RFeedbackPages
    /\ p_ret = <<>>
    /\ WIdle /\ CfIdle /\ ClIdle /\ RIdle /\ LIdle

CallRClassify ==
    /\ p_fn = "process_server.classify"
    /\ p_ret = <<>>
    /\ p_ret' = <<RClassify(RReadFeedback(p_arg))>>
    /\ UNCHANGED <<p_fn, p_arg>>
    /\ UNCHANGED <<wvars, cfvars, clvars, rvars, lvars>>

RClassifyNext == CallRClassify

SpecRClassify == RClassifyInit /\ [][RClassifyNext]_vars

(* ------------------ weirdhost.py: one row of the report ----------------- *)
\* The characters a configured locator is made of: a letter, the path
\* separator, and the colon (of a scheme, a port or a query).
UrlChars == {"a", "/", ":"}

\* the locators of server_list: non-empty (ParseServerList drops the rest)
UrlStrings == UNION {[1..n -> UrlChars] : n \in 1..MaxUrlLen}

\* _renew_server's f"{server_id}:{status}" for a locator and a status, read
\* back by print_summary and update_readme
ReportRowInit ==
    /\ p_fn = "update_readme.row"
    /\ p_arg \in [url : UrlStrings, status : StatusKeys]
    /\ p_ret = <<>>
    /\ WIdle /\ CfIdle /\ ClIdle /\ RIdle /\ LIdle

CallReportRow ==
    /\ p_fn = "update_readme.row"
    /\ p_ret = <<>>
    /\ LET result == FormatResult(ServerId(p_arg.url), p_arg.status)
       IN  p_ret' = <<[server_id |-> ResultId(result),
                       status |-> ResultStatus(result),
                       message |-> StatusMessage(ResultStatus(result))]>>
    /\ UNCHANGED <<p_fn, p_arg>>
    /\ UNCHANGED <<wvars, cfvars, clvars, rvars, lvars>>

ReportRowNext == CallReportRow

SpecReportRow == ReportRowInit /\ [][ReportRowNext]_vars

(* ----------------------- weirdhost.py: progress ----------------------- *)
\* Any one of the four parts of weirdhost.py modelled above is started, and
\* every browser call it makes returns or raises: a step that can be taken
\* is taken.
LiveInit == WInit \/ CfInit \/ ClInit \/ LInit

LiveNext == WNext \/ CfNext \/ ClNext \/ LNext

SpecLive == LiveInit /\ [][LiveNext]_vars /\ WF_vars(LiveNext)

(* ------------------------------- claims -------------------------------- *)
Succeeded == {<<STATUS_SUCCESS>>, <<STATUS_ALREADY_RENEWED>>}

\* the outcome run() returned for the i-th configured target: the status of
\* the i-th result, or none when results holds no i-th row
Outcome(i) == IF i <= Len(results) THEN ResultStatus(results[i]) ELSE <<"none">>

\* C1: once run() has returned for a non-empty target list, results holds
\* exactly one row per configured target, the i-th row for the i-th target,
\* whatever failed on the way (an exception during a target included).
C1_EveryTargetReported ==
    (pc \in {"returned", "exited"} /\ server_list # <<>>) =>
        /\ Len(results) = Len(server_list)
        /\ \A i \in 1..Len(results) : ResultId(results[i]) = ServerId(server_list[i])

\* C2: an exception raised while a target is processed stays at that target:
\* the target is reported runtime_error, every target of the list is still
\* reached, the report has a row per target and the exit code is 1.
C2_ExceptionContained ==
    (pc = "exited" /\ raised_at > 0) =>
        /\ idx = Len(server_list)
        /\ Outcome(raised_at) = <<STATUS_RUNTIME_ERROR>>
        /\ Len(report) = Len(server_list)
        /\ exit_code = 1

\* C3: the report update_readme writes has exactly one row per configured
\* target, in the order of the target list.
C3_ReportRowPerTarget ==
    (pc = "exited" /\ server_list # <<>>) =>
        /\ Len(report) = Len(server_list)
        /\ \A i \in 1..Len(report) : report[i].server_id = ServerId(server_list[i])

\* C4: the exit code is 0 exactly when at least one target is configured and
\* every target's outcome is success or already_renewed; otherwise it is 1.
C4_ExitCode ==
    pc = "exited" =>
        /\ exit_code \in {0, 1}
        /\ exit_code = 0 <=>
            /\ server_list # <<>>
            /\ \A i \in 1..Len(server_list) : Outcome(i) \in Succeeded

\* C5: a run whose target list is empty (unset, empty, only separators or
\* whitespace) exits non-zero and writes a report that says no targets are
\* configured.
C5_EmptyListReported ==
    (r_pc = "exited" /\ ParseServerList(r_urls_str) = <<>>) =>
        /\ r_exit # 0
        /\ r_report.written
        /\ \E i \in 1..Len(r_report.rows) : r_report.rows[i].status = STATUS_NO_SERVERS

\* C5 in weirdhost.py: run() returns the single row none:no_servers, the
\* report holds it and the exit code is 1.
W_EmptyListReported ==
    (pc = "exited" /\ server_list = <<>>) =>
        /\ exit_code = 1
        /\ report = <<[server_id |-> <<"none">>,
                      message |-> <<"message", STATUS_NO_SERVERS>>]>>

\* C6: whenever _wait_for_cf timed out during a target's navigation, the
\* outcome reported for that target is cf_blocked and no other status.
C6_GateTimeoutIsCfBlocked ==
    (pc # "off" /\ cur.target > 0 /\ cur.gate /\ cur.target <= Len(results)) =>
        Outcome(cur.target) = <<STATUS_CF_BLOCKED>>

\* C6, the part that holds: after a gate time-out the target is never
\* reported success or already_renewed, and its renew button is not clicked.
W_GateTimeoutFails ==
    (pc # "off" /\ cur.target > 0 /\ cur.gate /\ cur.target <= Len(results)) =>
        /\ Outcome(cur.target) \in
             {<<STATUS_CF_BLOCKED>>, <<STATUS_LOGIN_LOST>>, <<STATUS_NAV_FAILED>>}
        /\ cur.renew = 0

\* C7: when the challenge never clears, _wait_for_cf returns timed-out no
\* earlier than its deadline and no later than the deadline plus one poll
\* interval, the time spent in detection and in the checkbox click included.
C7_TimeoutWithinOnePoll ==
    cf_ret = "timed_out" =>
        /\ cf_now >= cf_timeout
        /\ cf_now <= cf_timeout + POLL_INTERVAL

\* C7, the part that holds: timed-out is never returned before the deadline.
W_TimeoutNotEarly == cf_ret = "timed_out" => cf_now >= cf_timeout

\* renew.py's statuses for "nothing to do now"
RAlreadyDone == {R_COOLDOWN, R_LIMITED}

\* C8: when the first visible action element found for a target is reported
\* disabled, the target's outcome is already-done, never success.
C8_DisabledIsAlreadyDone ==
    (r_pc # "off" /\ r_cur.target > 0 /\ r_cur.first_disabled
        /\ r_cur.target <= Len(r_results)) =>
        r_results[r_cur.target].status \in RAlreadyDone

\* C8 in weirdhost.py: a renew button whose is_enabled answers false gives
\* already_renewed and is not clicked.
W_DisabledIsAlreadyRenewed ==
    (pc # "off" /\ cur.target > 0 /\ cur.disabled) =>
        /\ cur.target <= Len(results)
        /\ Outcome(cur.target) = <<STATUS_ALREADY_RENEWED>>
        /\ cur.renew = 0
        /\ cur.confirm = 0

\* C9: over a whole run the renew element of any one target resource is
\* clicked at most once, and no other click (a second matching element, a
\* confirm or dialog button) is issued for a target.
C9_OneClickPerTarget ==
    pc # "off" =>
        /\ \A u \in Urls : clicked[u] <= 1
        /\ cur.renew <= 1
        /\ cur.confirm = 0

\* C9, the part that holds: one pass of _renew_server clicks the renew button
\* at most once.
W_OneRenewClickPerPass == pc # "off" => cur.renew <= 1

\* a marker of the category is visible on the page
MarkerVisible(probes) ==
    \E i \in 1..Len(probes) : probes[i] \in {"visible", "visible_text_raises"}

\* C10: whenever a success marker is visible the result is success, whatever
\* else is visible; whenever an already-done marker is visible and no success
\* marker is, the result is already_renewed, whatever error marker is visible.
C10_ClassifierPriority ==
    cl_result # "none" =>
        /\ MarkerVisible(cl_page.success) => cl_result = STATUS_SUCCESS
        /\ (~MarkerVisible(cl_page.success) /\ MarkerVisible(cl_page.already))
              => cl_result = STATUS_ALREADY_RENEWED

\* a marker of the category is visible and its text is read
MarkerRead(probes) == \E i \in 1..Len(probes) : probes[i] = "visible"

\* C10, the part that holds: the categories are scanned in the order success,
\* already-done, error, and the first one with a marker that is visible and
\* whose text is read decides.
W_ClassifierOrder ==
    cl_result # "none" =>
        cl_result =
            IF MarkerRead(cl_page.success) THEN STATUS_SUCCESS
            ELSE IF MarkerRead(cl_page.already) THEN STATUS_ALREADY_RENEWED
            ELSE IF MarkerRead(cl_page.error) THEN STATUS_RUNTIME_ERROR
            ELSE STATUS_SUCCESS

\* C11: when no success, already-done or error marker is observed after the
\* click (no selector's probe gets through count, is_visible and inner_text;
\* every probe raising included), the classifier's result is success.
C11_DefaultSuccess ==
    (cl_result # "none"
        /\ ~MarkerRead(cl_page.success)
        /\ ~MarkerRead(cl_page.already)
        /\ ~MarkerRead(cl_page.error)) =>
        cl_result = STATUS_SUCCESS

\* C11's case: every marker probe raised and the classifier has answered
W_AllProbesRaise ==
    /\ cl_result = STATUS_SUCCESS
    /\ cl_page = UniformMarkerPage("raises")

\* renew.py: run() ended at "if not self.login(): sys.exit(1)" (the browser
\* was launched and is not closed)
RLoginFailedExit == r_pc = "exited" /\ r_browser = "open"

\* C12: when neither login path authenticates, no target is navigated to, no
\* renew element is clicked, every target is reported login_failed and the
\* exit code is not 0.
C12_AuthFailureReported ==
    RLoginFailedExit =>
        /\ r_exit # 0
        /\ r_cur = RNoTarget
        /\ r_report.written
        /\ Len(r_report.rows) = Len(r_urls)
        /\ \A i \in 1..Len(r_report.rows) :
              /\ r_report.rows[i].id = ServerId(r_urls[i])
              /\ r_report.rows[i].status = STATUS_LOGIN_FAILED

\* C12 in weirdhost.py: after "if not login_ok" the loop is never entered,
\* nothing is clicked, every target is reported login_failed and main exits 1.
W_AuthFailureAborts ==
    login_ok = "no" =>
        /\ idx = 0
        /\ cur = NoTarget
        /\ \A u \in Urls : clicked[u] = 0
        /\ results = AllTargets(server_list, STATUS_LOGIN_FAILED)
        /\ pc = "exited" =>
              /\ exit_code = 1
              /\ Len(report) = Len(server_list)
              /\ \A i \in 1..Len(report) :
                    report[i] = [server_id |-> ServerId(server_list[i]),
                                 message |-> <<"message", STATUS_LOGIN_FAILED>>]

\* C13: with an empty target list, or with neither a token nor a complete
\* identifier and secret pair, the browser is never launched and the run ends
\* with a non-zero exit code.
C13_ConfigErrorBeforeLaunch ==
    (ParseServerList(r_urls_str) = <<>> \/ ~(r_cookie \/ r_creds)) =>
        /\ r_pc \in {"run", "exited"}
        /\ r_browser = "none"
        /\ r_pc = "exited" => r_exit # 0

\* C13 in weirdhost.py: run() returns before "with sync_playwright()".
W_ConfigErrorBeforeLaunch ==
    (server_list = <<>> \/ ~(has_cookie \/ has_creds)) =>
        /\ pc \in {"run", "returned", "exited"}
        /\ browser = "none"
        /\ pc = "exited" => exit_code = 1

\* C14: a resource locator named more than once in the configured string is
\* processed once and gets one report row.
C14_TargetsDeduplicated ==
    pc # "off" =>
        /\ \A i, j \in 1..Len(results) :
              (i < j /\ j <= Len(server_list)) => server_list[i] # server_list[j]
        /\ \A i, j \in 1..Len(report) :
              i < j => report[i].server_id # report[j].server_id

\* C15: the token path is attempted first when a token is configured, the
\* password path only if the token path did not authenticate, and each of the
\* two paths at most once per run.
C15_LoginOrder ==
    /\ l_calls \in {<<>>, <<"cookie">>, <<"email">>, <<"cookie", "email">>}
    /\ (l_cookie /\ l_calls # <<>>) => l_calls[1] = "cookie"
    /\ l_auth = "cookie" => l_calls = <<"cookie">>
    /\ l_pc = "done" => (l_cookie => l_calls # <<>> /\ l_calls[1] = "cookie")

\* C15's case: the token path was tried and failed, the password path was
\* tried after it and authenticated
W_FallbackAuthenticated ==
    /\ l_pc = "done"
    /\ l_calls = <<"cookie", "email">>
    /\ l_auth = "email"
    /\ l_login_ok = "yes"

\* C15 in renew.py: login() enters the cookie path first and the account
\* path only after it, each once
W_RLoginOrder ==
    /\ r_calls \in {<<>>, <<"cookie">>, <<"email">>, <<"cookie", "email">>}
    /\ (r_cookie /\ r_calls # <<>>) => r_calls[1] = "cookie"
    /\ (r_pc \notin {"off", "run", "init_browser", "login"} /\ r_browser # "none"
          /\ r_cookie) => r_calls[1] = "cookie"

\* C16: the report is written on every run, configuration and login
\* failures included, once, and only at the end of the run.
C16_ReportWrittenOnce ==
    /\ r_pc = "exited" => r_report.written
    /\ r_report.written => r_pc = "exited"

\* C16 in weirdhost.py: main() calls update_readme once, after run() has
\* returned, with the rows run() returned.
W_ReportWrittenAtExit ==
    /\ pc \notin {"off", "exited"} => report = <<>>
    /\ pc = "exited" => (report # <<>> /\ report = UpdateReadme(results))

\* the part that was started has come to its end: main() has called
\* sys.exit, _wait_for_cf has returned, the login section has settled
\* login_ok (or raised), _detect_click_result has returned
Finished ==
    \/ pc = "exited"
    \/ cf_pc = "done"
    \/ l_pc = "done"
    \/ cl_result # "none"

\* C17: every run terminates: when each browser call returns or raises, the
\* gate poll loop, both login paths, the selector and marker search loops and
\* the per-target loop all finish, and the process reaches its exit.
C17_Terminates == <>Finished

\* C17's case: a whole run over the longest target list has reached its
\* exit after processing the last target
W_RunExited ==
    /\ pc = "exited"
    /\ Len(server_list) = MaxFields
    /\ idx = Len(server_list)
    /\ Len(results) = Len(server_list)

\* C17 for the gate handler alone: its loop has ended by time-out
W_GateLoopTimedOut == cf_pc = "done" /\ cf_ret = "timed_out"

\* C18: when the gate is still unresolved at its deadline during the
\* password path, before the form is filled or after it is submitted, the
\* path does not report the session as authenticated.
C18_GateFailsClosed == l_auth = "email" => l_gate = "resolved"

\* C18, the part that holds: a gate time-out before the form is filled makes
\* _login_with_email return False without touching the form.
W_GateBeforeFormFailsClosed ==
    (l_pc = "done" /\ l_gate = "timed_out" /\ l_group = 0) =>
        /\ l_login_ok = "no"
        /\ l_auth = "none"
        /\ l_submits = 0

\* C20: the login form is filled and submitted for the first field-name
\* variant whose fields are present and for no other: at most one submission
\* per run, and no retry with a later variant after a failed login.
C20_OneSubmitFirstVariant == l_submits <= 1

\* C20, the part that holds: the variants are tried in the order of
\* selector_groups, each at most once.
W_VariantsInOrder ==
    [][(l_pc = "email_group" /\ l_pc' = "email_group") => l_group' = l_group + 1]_vars

\* C19: for each target the steps are gate handler, action click, gate handler
\* again, outcome classification: the gate handler runs again after the click
\* and before any feedback marker is inspected.
C19_GateAgainAfterClick ==
    (cur.target > 0 /\ cur.steps # <<>> /\ cur.steps[Len(cur.steps)] = "classify") =>
        cur.steps = <<"gate", "click", "gate", "classify">>

\* C19, the part that holds: the gate handler runs before the click and the
\* click before the classification.
W_GateClickClassify ==
    cur.target > 0 =>
        cur.steps \in {<<>>, <<"gate">>, <<"gate", "click">>,
                       <<"gate", "click", "classify">>}

\* _safe_goto returned False because _wait_for_cf timed out, and _renew_server
\* is telling the failures apart
GateTimedOutHere == cur.gate /\ pc \in {"diagnose_cf", "diagnose_login"}

\* C21: a gate time-out while a target is handled ends that target only: its
\* renew button is never clicked, it gets its one result row, and run() goes
\* on to navigate to the next target of the list (or, after the last target,
\* to the end of the loop).
C21_GateTimeoutEndsTargetOnly ==
    /\ [](cur.target > 0 /\ cur.gate =>
            /\ cur.renew = 0 /\ cur.confirm = 0
            /\ "click" \notin {cur.steps[i] : i \in 1..Len(cur.steps)}
            /\ pc \notin {"idle", "find", "enabled", "click", "detect", "confirm",
                          "except"})
    /\ [][(GateTimedOutHere /\ ~GateTimedOutHere') =>
            /\ Len(results') = Len(results) + 1
            /\ clicked' = clicked
            /\ IF idx < Len(server_list)
               THEN pc' = "nav" /\ idx' = idx + 1
               ELSE pc' = "close"]_vars

\* C21's case: the first of two targets met a gate time-out, has its row, and
\* run() stands at the navigation to the second target
W_NextTargetAfterGateTimeout ==
    /\ cur.target = 1 /\ cur.gate
    /\ pc = "nav" /\ idx = 2
    /\ Len(results) = 1
    /\ clicked = [u \in Urls |-> 0]

\* C22: when the navigation to a target finds the session logged out, the
\* target is reported login_lost_on_server, no login path is run again, and
\* run() goes on with the remaining targets.
C22_SessionLostReported ==
    /\ (pc # "off" /\ cur.target > 0 /\ cur.lost /\ cur.target <= Len(results)) =>
          Outcome(cur.target) = <<STATUS_LOGIN_LOST>>
    /\ idx > 0 => pc \notin {"login_cookie", "login_email", "email_group"}

\* C22, the part that holds in weirdhost.py: the target is reported with one
\* of the three navigation failures and is not clicked, no login path is run
\* once the loop has started, and the loop goes on with the next target.
W_SessionLostFailsTarget ==
    /\ [](idx > 0 => pc \notin {"login_cookie", "login_email", "email_group"})
    /\ []((cur.target > 0 /\ cur.lost) =>
            /\ cur.renew = 0
            /\ cur.target <= Len(results) =>
                  Outcome(cur.target) \in
                    {<<STATUS_CF_BLOCKED>>, <<STATUS_LOGIN_LOST>>, <<STATUS_NAV_FAILED>>})
    /\ [][(cur.lost /\ pc \in {"diagnose_cf", "diagnose_login"}
            /\ pc' \notin {"diagnose_cf", "diagnose_login"}) =>
            /\ Len(results') = Len(results) + 1
            /\ IF idx < Len(server_list)
               THEN pc' = "nav" /\ idx' = idx + 1
               ELSE pc' = "close"]_vars

\* C22 in renew.py: a target whose page is on the login path is reported
\* session-lost at once, without a click; login() is not called again and
\* the loop goes on.
W_RSessionLost ==
    /\ []((r_cur.target > 0 /\ r_cur.lost) =>
            /\ r_cur.renew = 0
            /\ r_cur.target <= Len(r_results)
            /\ r_results[r_cur.target].status = R_LOST
            /\ r_pc \in {"nav", "finish"})
    /\ [](r_idx > 0 => r_pc # "login")

\* C23: a login path returns True only after _check_login_status, called
\* after the page was loaded and _wait_for_cf had run, returned True; and
\* _check_login_status never returns True for a URL on the login path, and
\* returns True only for a URL outside /auth/ or a page with a logged-in
\* marker.
C23_AuthByStateProbe ==
    /\ l_auth # "none" =>
          /\ l_probe # NoProbe
          /\ l_probe.gate # "none"
          /\ CheckLoginStatus(l_probe)
    /\ (l_probe # NoProbe /\ CheckLoginStatus(l_probe)) =>
          /\ l_probe.url # "login"
          /\ l_probe.url = "app" \/ l_probe.markers = "some"
    /\ (l_probe # NoProbe /\ l_pc = "done" /\ l_login_ok = "yes") =>
          l_probe.url # "login"

\* C23's case: the cookie path has authenticated on a page under /auth/ that
\* shows a logged-in marker
W_AuthenticatedByMarker ==
    /\ l_pc = "done" /\ l_auth = "cookie" /\ l_login_ok = "yes"
    /\ l_probe.url = "auth" /\ l_probe.markers = "some"
    /\ l_probe.gate = "resolved"

\* _is_cf_challenge has returned for the page p_arg
ChallengeAnswered == p_fn = "_is_cf_challenge" /\ p_ret # <<>>

\* a signal of the page holds: a keyword in the title, two or more of the
\* keywords in the body, the Turnstile iframe or a challenge form present
SignalHolds(o) ==
    \/ o.title = "keyword"
    \/ o.body_keywords >= CfKeywordThreshold
    \/ o.iframe = "some"
    \/ o.form = "some"

\* C24: _is_cf_challenge returns True exactly when one of its signals holds;
\* one body keyword alone is no challenge, and a signal that cannot be read
\* does not keep the remaining signals from being evaluated.
C24_AnySignalChallenged ==
    ChallengeAnswered => (p_ret[1] <=> SignalHolds(p_arg))

\* C24, the part that holds: when page.title() returns, the answer is True
\* exactly when a signal holds, a failure of the body, iframe or form read
\* included; when page.title() raises the answer is False.
W_SignalsAfterTitle ==
    ChallengeAnswered =>
        p_ret[1] <=> (p_arg.title # "raises" /\ SignalHolds(p_arg))

\* the first element, by selector and then by document order, whose probe
\* answer is in vis; NoButton when there is none
FirstMatch(obs, vis) ==
    LET hits == UNION { { <<s, i>> : i \in {j \in 1..Len(obs[s]) : obs[s][j] \in vis} } :
                        s \in DOMAIN obs }
    IN  IF hits = {} THEN NoButton
        ELSE LET h == CHOOSE h \in hits :
                        \A g \in hits : h[1] < g[1] \/ (h[1] = g[1] /\ h[2] <= g[2])
             IN  [sel |-> h[1], nth |-> h[2]]

\* every count() and every visibility or enabledness probe of the page answers
AllProbesAnswer(obs) ==
    \A s \in DOMAIN obs :
        obs[s] # CountRaises /\ \A i \in 1..Len(obs[s]) : obs[s][i] # "raises"

\* C25: the candidate patterns are walked in their fixed order and the first
\* visible match is selected (earliest pattern, then document order); when no
\* pattern has a visible match no element is selected.
C25_FirstVisibleSelected ==
    (p_fn = "process_server.find" /\ p_ret # <<>> /\ AllProbesAnswer(p_arg)) =>
        p_ret[1] = FirstMatch(p_arg, {"disabled", "enabled"})

\* C25 in weirdhost.py: when every probe answers, the element selected is the
\* first visible match by selector and document order, and NoButton when
\* nothing is visible; whatever the probes do, a selected element is visible.
W_FirstVisibleSelected ==
    (p_fn = "_renew_server.find" /\ p_ret # <<>>) =>
        /\ AllProbesAnswer(p_arg) => p_ret[1] = FirstMatch(p_arg, {"visible"})
        /\ p_ret[1] # NoButton => p_arg[p_ret[1].sel][p_ret[1].nth] = "visible"

\* C25 in renew.py, the part that holds: the element selected is the first
\* match that is visible and enabled.
W_RFirstUsableSelected ==
    (p_fn = "process_server.find" /\ p_ret # <<>> /\ AllProbesAnswer(p_arg)) =>
        p_ret[1] = FirstMatch(p_arg, {"enabled"})

\* C25, no button: a target reported no_button_found was not clicked.
W_NoButtonNoClick ==
    (cur.target > 0 /\ cur.target <= Len(results)
        /\ Outcome(cur.target) = <<STATUS_NO_BUTTON>>) =>
        cur.renew = 0 /\ cur.confirm = 0

\* C26: whatever _handle_confirm_dialog finds, clicks or fails on,
\* _renew_server returns the status _detect_click_result computed before it:
\* the step through the dialog appends that status for the current target
\* and raises nothing.
C26_DismissKeepsOutcome ==
    [][pc = "confirm" =>
        /\ results' = Append(results,
                             FormatResult(ServerId(server_list[idx]), result_status))
        /\ result_status \in {STATUS_SUCCESS, STATUS_ALREADY_RENEWED,
                              STATUS_RUNTIME_ERROR}
        /\ pc' \in {"nav", "close"}
        /\ raised_at' = raised_at]_vars

\* C26's case: a dialog button was clicked after the classifier had answered
\* runtime_error, and the target's row says runtime_error
W_DismissedAfterError ==
    /\ cur.target > 0 /\ cur.target <= Len(results)
    /\ cur.steps = <<"gate", "click", "classify">>
    /\ cur.confirm > 0
    /\ Outcome(cur.target) = <<STATUS_RUNTIME_ERROR>>

\* C27: in renew.py a target's steps are the renew click, the confirm step
\* and the classification, in that order: a confirm click is made only after
\* the renew click, the result is classified only after the confirm step,
\* and the confirm step, whether it finds and clicks the button or fails,
\* always goes on to the classification without ending the target.
C27_RenewConfirmClassify ==
    /\ [](r_cur.target > 0 =>
            /\ r_cur.steps \in {<<>>, <<"click">>, <<"click", "confirm">>,
                                <<"click", "confirm", "classify">>}
            /\ r_cur.confirm > 0 => (r_cur.renew > 0 /\ Len(r_cur.steps) >= 2)
            /\ r_pc = "classify" => r_cur.steps = <<"click", "confirm">>)
    /\ [][r_pc = "confirm" =>
            (r_pc' = "classify" /\ r_results' = r_results /\ r_idx' = r_idx)]_vars

\* C27's case: the confirm button was not clicked (not found in time, or not
\* visible), and the target was classified all the same
W_ClassifiedWithoutConfirm ==
    /\ r_cur.target > 0 /\ r_cur.target <= Len(r_results)
    /\ r_cur.steps = <<"click", "confirm", "classify">>
    /\ r_cur.renew = 1 /\ r_cur.confirm = 0
    /\ r_results[r_cur.target].status = R_COOLDOWN

\* the popup texts of p_arg
FeedbackTexts == {p_arg.title, p_arg.content}

\* the popup shows a success sign: the icon or a success keyword
SuccessShown ==
    p_arg.icon \/ FeedbackTexts \cap {"success_kw", "success_and_fail"} # {}

\* C28: renew.py's classification puts success first, cooldown second and the
\* failure keywords third: a success icon or keyword gives success even with a
\* failure keyword in the text; without one the cooldown phrase gives cooldown;
\* without either a failure keyword gives the limit row; and an empty text
\* with no success icon gives no-response, never success.
C28_RClassifierPriority ==
    (p_fn = "process_server.classify" /\ p_ret # <<>> /\ ~p_arg.raises) =>
        /\ SuccessShown => p_ret[1] = R_SUCCESS
        /\ (~SuccessShown /\ "cooldown" \in FeedbackTexts) => p_ret[1] = R_COOLDOWN
        /\ (~SuccessShown /\ "cooldown" \notin FeedbackTexts
              /\ "fail_kw" \in FeedbackTexts) => p_ret[1] = R_LIMITED
        /\ (~p_arg.icon /\ FeedbackTexts = {"empty"}) => p_ret[1] = R_NO_RESPONSE
        /\ p_ret[1] = R_SUCCESS => SuccessShown

\* C28's case: the popup holds a success keyword and a failure keyword, no
\* icon, and is classified success
W_SuccessOverFailure ==
    /\ p_fn = "process_server.classify" /\ p_ret = <<R_SUCCESS>>
    /\ ~p_arg.icon
    /\ p_arg.title = "success_kw" /\ p_arg.content = "fail_kw"

\* a row was encoded and read back
RowReadBack == p_fn = "update_readme.row" /\ p_ret # <<>>

\* C29: the "identifier:status" string round-trips: the identifier and the
\* status that print_summary and update_readme recover by splitting at the
\* first colon are the target's last path segment and the status the
\* executor produced, and the row is rendered with the message of one of the
\* nine status constants, never as an unknown status.
C29_RowRoundTrip ==
    RowReadBack =>
        /\ p_ret[1].server_id = ServerId(p_arg.url)
        /\ p_ret[1].status = <<p_arg.status>>
        /\ p_ret[1].message = <<"message", p_arg.status>>

\* C29, the part that holds: the row round-trips whenever the target's last
\* path segment holds no colon.
W_RowRoundTripWithoutColon ==
    (RowReadBack /\ \A i \in 1..Len(ServerId(p_arg.url)) : ServerId(p_arg.url)[i] # ":") =>
        /\ p_ret[1].server_id = ServerId(p_arg.url)
        /\ p_ret[1].status = <<p_arg.status>>
        /\ p_ret[1].message = <<"message", p_arg.status>>

\* C29, the statuses: every row run() returns carries one of the nine status
\* constants.
W_StatusesDefined ==
    \A i \in 1..Len(results) :
        \E st \in StatusKeys : results[i][Len(results[i])] = st

\* the password path has been entered
EmailPathStarted == \E i \in 1..Len(l_calls) : l_calls[i] = "email"

\* C30: whenever the cookie path fails after add_cookies (failed state probe
\* or gate time-out), its cookies are removed from the context before the
\* password path starts: the password path never runs with them present.
C30_TokensClearedBeforeFallback ==
    (l_pc = "email_open" \/ EmailPathStarted) => ~l_tokens

\* C30, the part that holds: after a failed state probe the cookies are
\* cleared before _login_with_cookies returns.
W_ClearedAfterFailedProbe ==
    (l_calls = <<"cookie">> /\ l_probe # NoProbe /\ ~CheckLoginStatus(l_probe)) =>
        ~l_tokens

(* ------------------------------- C31 ----------------------------------- *)
\* C31: in weirdhost.py, whenever run() has returned its results after the
\* browser was launched (the login failed, every target was processed, or an
\* exception escaped during the login or during a target), self.browser.close()
\* has been called exactly once and the browser is closed; it is never called
\* a second time, and never when the launch itself failed
C31_ClosedExactlyOnce ==
    /\ closes <= 1
    /\ (browser = "closed") <=> (closes = 1)
    /\ (pc \in {"returned", "exited"} /\ browser # "none") => (browser = "closed" /\ closes = 1)

\* C31: run() returned after an exception escaped during the second target or
\* a later one, with the results gathered so far, and the browser was closed once
W_ClosedOnceAfterTargetRaised ==
    /\ pc = "returned"
    /\ raised_at > 1
    /\ results # <<>>
    /\ browser = "closed"
    /\ closes = 1

====
